---- MODULE Spec2Model ----
(***************************************************************************)
(* AutoSpec: an LLM-driven API mapper.                                     *)
(*   backend/llm.py  best-effort JSON extraction and the three generators  *)
(*   backend/rag.py  ingestion into, and retrieval from, the vector store  *)
(*   app.py          the four-step wizard over the UI session              *)
(*                                                                         *)
(* Text is a sequence of characters.  A character is the one-character     *)
(* string for printable ASCII and for tab, newline, form feed and carriage *)
(* return; the backquote and any other UTF-16 code unit is the             *)
(* six-character string \uxxxx (lower-case hex), a character beyond the    *)
(* basic plane being its surrogate pair.  Python values (dict, list, str,  *)
(* int, float, True/False/None) are tagged records [t, v]; a dict is the   *)
(* sequence of its (key, value) pairs in insertion order.  An int is the   *)
(* text of its decimal digits.  A float is <<sign, ds, e>>, the shortest   *)
(* decimal ds * 10^e that rounds to it (what float.__repr__ shows), ds     *)
(* being its digits; nan and the infinities are the values JNaN, JInfinity *)
(* and JNegInfinity.  levels is the number of nested calls the             *)
(* interpreter's recursion limit still allows where json.loads scans.      *)
(***************************************************************************)
EXTENDS Integers, Sequences, FiniteSets, TLC

VARIABLES text, levels, result, store, handle, session, fault, call

vars == <<text, levels, result, store, handle, session, fault, call>>

(***************************************************************************)
(* Python values                                                           *)
(***************************************************************************)
JStr(s) == [t |-> "str", v |-> s]
\* an int, as the digits of its decimal form
JInt(ds) == [t |-> "num", v |-> ds]
JObj(pairs) == [t |-> "obj", v |-> pairs]
JArr(items) == [t |-> "arr", v |-> items]
JTrue == [t |-> "lit", v |-> "true"]
JFalse == [t |-> "lit", v |-> "false"]
JNull == [t |-> "lit", v |-> "null"]
\* a finite float, as the shortest decimal that rounds to it: sign * ds * 10^e with
\* ds its digits
JFloat(sign, ds, e) == [t |-> "float", v |-> <<sign, ds, e>>]
JNaN == [t |-> "const", v |-> "NaN"]
JInfinity == [t |-> "const", v |-> "Infinity"]
JNegInfinity == [t |-> "const", v |-> "-Infinity"]

\* dict membership: key in d
HasKey(d, k) == d.t = "obj" /\ \E i \in 1..Len(d.v) : d.v[i][1] = k

\* d[key] on a dict that holds the key
Get(d, k) == d.v[CHOOSE i \in 1..Len(d.v) : d.v[i][1] = k][2]

\* d[key] = value on the pair list: an existing key keeps its position
DictSet(pairs, k, val) ==
    IF \E i \in 1..Len(pairs) : pairs[i][1] = k
    THEN [i \in 1..Len(pairs) |-> IF pairs[i][1] = k THEN <<k, val>> ELSE pairs[i]]
    ELSE Append(pairs, <<k, val>>)

(***************************************************************************)
(* json.loads                                                              *)
(***************************************************************************)
EOF == ""
Whitespace == {" ", "\t", "\n", "\r"}
Digits == <<"0", "1", "2", "3", "4", "5", "6", "7", "8", "9">>
HexDigits ==
    <<"0", "1", "2", "3", "4", "5", "6", "7", "8", "9", "a", "b", "c", "d", "e", "f">>
UpperHex == <<"A", "B", "C", "D", "E", "F">>

\* the characters of code 32 to 126, in code order
Ascii ==
    <<" ", "!", "\"", "#", "$", "%", "&", "'", "(", ")", "*", "+",
      ",", "-", ".", "/", "0", "1", "2", "3", "4", "5", "6", "7",
      "8", "9", ":", ";", "<", "=", ">", "?", "@", "A", "B", "C",
      "D", "E", "F", "G", "H", "I", "J", "K", "L", "M", "N", "O",
      "P", "Q", "R", "S", "T", "U", "V", "W", "X", "Y", "Z", "[",
      "\\", "]", "^", "_", "\\u0060", "a", "b", "c", "d", "e", "f", "g",
      "h", "i", "j", "k", "l", "m", "n", "o", "p", "q", "r", "s",
      "t", "u", "v", "w", "x", "y", "z", "{", "|", "}", "~">>

IsDigit(c) == \E d \in 1..10 : Digits[d] = c
DigitVal(c) == (CHOOSE d \in 1..10 : Digits[d] = c) - 1

IsHex(c) == (\E d \in 1..16 : HexDigits[d] = c) \/ (\E d \in 1..6 : UpperHex[d] = c)
HexVal(c) ==
    IF \E d \in 1..16 : HexDigits[d] = c
    THEN (CHOOSE d \in 1..16 : HexDigits[d] = c) - 1
    ELSE (CHOOSE d \in 1..6 : UpperHex[d] = c) + 9

\* chr(n) for a UTF-16 code unit n
CharOf(n) ==
    CASE n >= 32 /\ n <= 126 -> Ascii[n - 31]
      [] n = 9 -> "\t"
      [] n = 10 -> "\n"
      [] n = 12 -> "\f"
      [] n = 13 -> "\r"
      [] OTHER -> "\\u" \o HexDigits[(n \div 4096) + 1] \o HexDigits[((n \div 256) % 16) + 1]
                         \o HexDigits[((n \div 16) % 16) + 1] \o HexDigits[(n % 16) + 1]

\* a character of code below 0x20, which a strict string literal may not hold
IsControl(c) ==
    \/ c \in {"\t", "\n", "\r", "\f"}
    \/ Len(c) = 6 /\ SubSeq(c, 3, 5) \in {"000", "001"}

At(s, i) == IF i >= 1 /\ i <= Len(s) THEN s[i] ELSE EOF

RECURSIVE SkipWs(_, _)
SkipWs(s, i) == IF At(s, i) \in Whitespace THEN SkipWs(s, i + 1) ELSE i

\* sys.int_info.default_max_str_digits: int(text) of more digits is a ValueError
MaxStrDigits == 4300

\* sys.getrecursionlimit() of an interpreter started with its defaults
RecursionLimit == 1000

\* the levels of the limit that are taken where a generator's json.loads starts to
\* scan, in a script the interpreter runs directly: the frames of the script, the
\* generator, safe_json_from_response, json.loads, decode and raw_decode
ScriptFrames == 7

\* the frames a launcher that runs the script holds below it
LauncherFrames == 4

\* the outcome of a scan: a value and the place after it, or an exception.  The
\* exception is a JSONDecodeError, a RecursionError or a ValueError; which one is
\* not kept, since the only caller catches them all
Fail == [ok |-> FALSE, v |-> JNull, i |-> 0]
Ok(v, i) == [ok |-> TRUE, v |-> v, i |-> i]

\* json.decoder.BACKSLASH
Escapable == {"\"", "\\", "/", "b", "f", "n", "r", "t"}
Unescape(c) ==
    CASE c = "b" -> CharOf(8)
      [] c = "f" -> "\f"
      [] c = "n" -> "\n"
      [] c = "r" -> "\r"
      [] c = "t" -> "\t"
      [] OTHER -> c

\* the code unit of the four hex digits at i
Hex4(s, i) ==
    4096 * HexVal(s[i]) + 256 * HexVal(s[i + 1]) + 16 * HexVal(s[i + 2]) + HexVal(s[i + 3])

\* the characters of a string literal whose opening quote is before i
RECURSIVE scanstring(_, _, _)
scanstring(s, i, acc) ==
    LET c == At(s, i) IN
    IF c = EOF \/ IsControl(c) THEN Fail
    ELSE IF c = "\"" THEN Ok(acc, i + 1)
    ELSE IF c = "\\" THEN
        IF At(s, i + 1) = "u" THEN
            IF \A k \in 2..5 : IsHex(At(s, i + k))
            THEN scanstring(s, i + 6, Append(acc, CharOf(Hex4(s, i + 2))))
            ELSE Fail
        ELSE IF At(s, i + 1) \in Escapable
        THEN scanstring(s, i + 2, Append(acc, Unescape(At(s, i + 1))))
        ELSE Fail
    ELSE scanstring(s, i + 1, Append(acc, c))

\* the place after the run of digits that starts at i
DigitEnd(s, i) ==
    IF \A j \in i..Len(s) : IsDigit(s[j]) THEN Len(s) + 1
    ELSE CHOOSE j \in i..Len(s) : ~IsDigit(s[j]) /\ \A k \in i..(j - 1) : IsDigit(s[k])

RECURSIVE Pow10(_)
Pow10(k) == IF k = 0 THEN 1 ELSE 10 * Pow10(k - 1)

Zeros(k) == [i \in 1..k |-> "0"]

\* the number a short run of digits writes
RECURSIVE TextToNat(_)
TextToNat(ds) ==
    IF ds = <<>> THEN 0
    ELSE 10 * TextToNat(SubSeq(ds, 1, Len(ds) - 1)) + DigitVal(ds[Len(ds)])

\* digits without their leading zeros: zero is the empty run
NoLeadingZeros(ds) ==
    IF \A i \in 1..Len(ds) : ds[i] = "0" THEN <<>>
    ELSE SubSeq(ds, CHOOSE i \in 1..Len(ds) : ds[i] /= "0" /\ \A k \in 1..(i - 1) : ds[k] = "0",
                Len(ds))

\* the place of the last digit that is not c, or 0
LastNot(ds, c) ==
    IF \A i \in 1..Len(ds) : ds[i] = c THEN 0
    ELSE CHOOSE i \in 1..Len(ds) : ds[i] /= c /\ \A k \in (i + 1)..Len(ds) : ds[k] = c

\* x < y for two naturals written without leading zeros, or at the same width
Less(x, y) ==
    \/ Len(x) < Len(y)
    \/ /\ Len(x) = Len(y)
       /\ \E i \in 1..Len(x) :
             /\ x[i] /= y[i]
             /\ \A k \in 1..(i - 1) : x[k] = y[k]
             /\ DigitVal(x[i]) < DigitVal(y[i])

\* x + 1 at the width of x, one digit wider when x is all nines
IncText(x) ==
    LET p == LastNot(x, "9") IN
    IF p = 0 THEN <<"1">> \o Zeros(Len(x))
    ELSE SubSeq(x, 1, p - 1) \o <<Digits[DigitVal(x[p]) + 2]>> \o Zeros(Len(x) - p)

\* x - 1 for x >= 1
DecText(x) ==
    LET p == LastNot(x, "0") IN
    NoLeadingZeros(SubSeq(x, 1, p - 1) \o <<Digits[DigitVal(x[p])]>>
                   \o [i \in 1..(Len(x) - p) |-> "9"])

IsOdd(x) == x /= <<>> /\ DigitVal(x[Len(x)]) % 2 = 1

\* naturals of any size as base-10000 limbs, least significant first.  Long runs
\* are worked on by halves
RECURSIVE ToLimbs(_)
ToLimbs(ds) ==
    IF Len(ds) <= 4 THEN <<TextToNat(ds)>>
    ELSE ToLimbs(SubSeq(ds, Len(ds) - 4 * ((Len(ds) + 3) \div 8) + 1, Len(ds)))
         \o ToLimbs(SubSeq(ds, 1, Len(ds) - 4 * ((Len(ds) + 3) \div 8)))

FromLimbs(A) ==
    NoLeadingZeros([i \in 1..(4 * Len(A)) |->
        Digits[((A[Len(A) - ((i - 1) \div 4)] \div Pow10(3 - ((i - 1) % 4))) % 10) + 1]])

\* the limbs with the carry above them
WithCarry(r) ==
    r.limbs \o (IF r.carry = 0 THEN <<>>
                ELSE IF r.carry < 10000 THEN <<r.carry>>
                ELSE <<r.carry % 10000, r.carry \div 10000>>)

\* the limbs lo..hi of A * k + c, and the carry out of them
RECURSIVE MulCarry(_, _, _, _, _), MulJoin(_, _, _, _, _)
MulCarry(A, k, lo, hi, c) ==
    IF lo > hi THEN [limbs |-> <<>>, carry |-> c]
    ELSE IF lo = hi THEN [limbs |-> <<(A[lo] * k + c) % 10000>>,
                          carry |-> (A[lo] * k + c) \div 10000]
    ELSE MulJoin(A, k, MulCarry(A, k, lo, (lo + hi) \div 2, c), ((lo + hi) \div 2) + 1, hi)

MulJoin(A, k, left, lo, hi) ==
    LET right == MulCarry(A, k, lo, hi, left.carry) IN
    [limbs |-> left.limbs \o right.limbs, carry |-> right.carry]

\* A * k + c for a small k
MulSmall(A, k, c) ==
    IF A = <<>> THEN WithCarry([limbs |-> A, carry |-> c])
    ELSE WithCarry(MulCarry(A, k, 1, Len(A), c))

\* the limbs lo..hi of A + B + c, and the carry out of them
RECURSIVE AddCarry(_, _, _, _, _), AddJoin(_, _, _, _, _)
AddCarry(A, B, lo, hi, c) ==
    IF lo > hi THEN [limbs |-> <<>>, carry |-> c]
    ELSE IF lo = hi THEN
        LET sum == (IF lo <= Len(A) THEN A[lo] ELSE 0) + (IF lo <= Len(B) THEN B[lo] ELSE 0) + c
        IN [limbs |-> <<sum % 10000>>, carry |-> sum \div 10000]
    ELSE AddJoin(A, B, AddCarry(A, B, lo, (lo + hi) \div 2, c), ((lo + hi) \div 2) + 1, hi)

AddJoin(A, B, left, lo, hi) ==
    LET right == AddCarry(A, B, lo, hi, left.carry) IN
    [limbs |-> left.limbs \o right.limbs, carry |-> right.carry]

BigAdd(A, B) ==
    WithCarry(AddCarry(A, B, 1, IF Len(A) > Len(B) THEN Len(A) ELSE Len(B), 0))

RECURSIVE BigMul(_, _)
BigMul(A, B) ==
    IF A = <<>> \/ B = <<>> THEN <<>>
    ELSE IF Len(B) = 1 THEN MulSmall(A, B[1], 0)
    ELSE BigAdd(BigMul(A, SubSeq(B, 1, Len(B) \div 2)),
                [i \in 1..(Len(B) \div 2) |-> 0]
                \o BigMul(A, SubSeq(B, (Len(B) \div 2) + 1, Len(B))))

Square(A) == BigMul(A, A)

\* b^p by squaring
RECURSIVE Power(_, _)
Power(b, p) ==
    IF p = 0 THEN <<1>>
    ELSE IF p % 2 = 1 THEN MulSmall(Power(b, p - 1), b, 0)
    ELSE Square(Power(b, p \div 2))

\* 2^52 and 2^53: a binary64 significand k has 2^52 <= k < 2^53, or is subnormal
Two52 == <<"4", "5", "0", "3", "5", "9", "9", "6", "2", "7", "3", "7", "0", "4", "9", "6">>
Two53 == <<"9", "0", "0", "7", "1", "9", "9", "2", "5", "4", "7", "4", "0", "9", "9", "2">>

\* (D * 10^e10) / 2^q is B * 10^sh with B the natural ScaledDigits(D, q) and sh
\* e10 for q <= 0 and e10 - q above
ScaledDigits(D, q) ==
    FromLimbs(BigMul(IF q <= 0 THEN Power(2, 0 - q) ELSE Power(5, q), ToLimbs(D)))

\* floor(B * 10^sh)
Floor10(B, sh) ==
    IF sh >= 0 THEN (IF B = <<>> THEN B ELSE B \o Zeros(sh))
    ELSE IF Len(B) <= 0 - sh THEN <<>>
    ELSE SubSeq(B, 1, Len(B) + sh)

\* how B * 10^sh - floor(B * 10^sh) compares with a half
Rest10(B, sh) ==
    IF sh >= 0 THEN "zero"
    ELSE IF Len(B) < 0 - sh THEN (IF B = <<>> THEN "zero" ELSE "below")
    ELSE LET first == B[Len(B) + sh + 1]
             more == \E i \in (Len(B) + sh + 2)..Len(B) : B[i] /= "0"
         IN CASE first \in {"6", "7", "8", "9"} -> "above"
              [] first = "5" -> IF more THEN "above" ELSE "half"
              [] first = "0" -> IF more THEN "below" ELSE "zero"
              [] OTHER -> "below"

\* the binary exponent of the binary64 nearest to D * 10^e10: the q with
\* 2^52 <= floor(D * 10^e10 / 2^q) < 2^53, and -1074 in the subnormal range
RECURSIVE FindQ(_, _, _), CheckQ(_, _, _, _)
FindQ(D, e10, q) ==
    CheckQ(D, e10, q, Floor10(ScaledDigits(D, q), IF q <= 0 THEN e10 ELSE e10 - q))

CheckQ(D, e10, q, I) ==
    IF Less(I, Two52) /\ q > -1074 THEN FindQ(D, e10, q - 1)
    ELSE IF ~Less(I, Two53) THEN FindQ(D, e10, q + 1)
    ELSE q

\* B * 10^sh rounded half-even to a significand; rounded up to 2^53 it is 2^52 at
\* the next exponent
RoundAt(B, sh, q) ==
    LET I == Floor10(B, sh)
        rest == Rest10(B, sh)
        k == IF rest = "above" \/ (rest = "half" /\ IsOdd(I)) THEN IncText(I) ELSE I
    IN
    IF k = Two53 THEN [k |-> Two52, q |-> q + 1] ELSE [k |-> k, q |-> q]

\* the binary64 k * 2^q nearest to D * 10^e10, ties to the even significand
Binary64At(D, e10, q) == RoundAt(ScaledDigits(D, q), IF q <= 0 THEN e10 ELSE e10 - q, q)

Binary64(D, e10) ==
    Binary64At(D, e10,
               FindQ(D, e10, IF ((Len(D) + e10 - 1) * 33219) \div 10000 - 52 < -1074
                             THEN -1074
                             ELSE ((Len(D) + e10 - 1) * 33219) \div 10000 - 52))

\* c rounds to the binary64 whose rounding interval is L..H, which holds its ends
\* when the significand is even
Inside(L, c, H, even) ==
    /\ Less(L, c) \/ (even /\ L = c)
    /\ Less(c, H) \/ (even /\ c = H)

\* float.__repr__: the shortest decimal that rounds to the float and, at that
\* length, the nearest to it.  L, M, H are the lower end, the float and the upper
\* end of the rounding interval in units of 10^sh, at one width with a leading 0
RECURSIVE Shortest(_, _, _, _, _, _, _)
Shortest(sign, L, M, H, even, sh, j) ==
    LET lo == SubSeq(M, 1, j) \o Zeros(Len(M) - j)
        hi == IncText(SubSeq(M, 1, j)) \o Zeros(Len(M) - j)
        rest == Rest10(M, j - Len(M))
        pick == IF rest = "zero" THEN lo
                ELSE IF Inside(L, lo, H, even) /\ Inside(L, hi, H, even)
                THEN (IF rest = "below" \/ (rest = "half" /\ ~IsOdd(SubSeq(M, 1, j)))
                      THEN lo ELSE hi)
                ELSE IF Inside(L, lo, H, even) THEN lo
                ELSE IF Inside(L, hi, H, even) THEN hi
                ELSE <<>>
        p == LastNot(pick, "0")
    IN IF pick = <<>> THEN Shortest(sign, L, M, H, even, sh, j + 1)
       ELSE JFloat(sign, NoLeadingZeros(SubSeq(pick, 1, p)), sh + Len(pick) - p)

Padded(sign, L, M, H, even, sh) ==
    Shortest(sign, Zeros(Len(H) + 1 - Len(L)) \o L, Zeros(Len(H) + 1 - Len(M)) \o M,
             <<"0">> \o H, even, sh, 1)

\* the rounding interval of k * 2^q in units of 2^(q-2), scaled by F to units of
\* a power of ten: below a power of two the neighbour is half as far
Interval(sign, k, q, F) ==
    Padded(sign,
           FromLimbs(BigMul(F, MulSmall(ToLimbs(DecText(k)), 4,
                                        IF k = Two52 /\ q > -1074 THEN 3 ELSE 2))),
           FromLimbs(BigMul(F, MulSmall(ToLimbs(k), 4, 0))),
           FromLimbs(BigMul(F, MulSmall(ToLimbs(k), 4, 2))),
           ~IsOdd(k),
           IF q >= 2 THEN 0 ELSE q - 2)

\* the float b = k * 2^q as Python shows it: out of range an infinity, zero a zero
Repr(sign, b) ==
    IF b.q > 971 THEN (IF sign = 1 THEN JInfinity ELSE JNegInfinity)
    ELSE IF b.k = <<>> THEN JFloat(sign, <<"0">>, 0)
    ELSE Interval(sign, b.k, b.q, IF b.q >= 2 THEN Power(2, b.q - 2) ELSE Power(5, 2 - b.q))

\* float(text) of the decimal D * 10^e10, D without leading and trailing zeros: a
\* decimal of up to 15 digits in the normal range is the shortest decimal of its
\* float; any other is rounded to the nearest binary64
FloatOf(sign, D, e10) ==
    IF D = <<>> THEN JFloat(sign, <<"0">>, 0)
    ELSE IF Len(D) + e10 > 310 THEN (IF sign = 1 THEN JInfinity ELSE JNegInfinity)
    ELSE IF Len(D) + e10 < -330 THEN JFloat(sign, <<"0">>, 0)
    ELSE IF Len(D) <= 15 /\ Len(D) + e10 >= -306 /\ Len(D) + e10 <= 308
    THEN JFloat(sign, D, e10)
    ELSE Repr(sign, Binary64(D, e10))

\* float(text) of the decimal ds * 10^e10
ToFloat(sign, ds, e10) ==
    LET D == NoLeadingZeros(ds) IN
    FloatOf(sign, SubSeq(D, 1, LastNot(D, "0")), e10 + Len(D) - LastNot(D, "0"))

\* int(text) of a run of digits: ValueError above the interpreter's digit limit
IntValue(neg, ds, j) ==
    IF Len(ds) > MaxStrDigits THEN Fail
    ELSE Ok(JInt(IF neg /\ ds /= <<"0">> THEN <<"-">> \o ds ELSE ds), j)

\* the exponent whose digits start at x (0: there is none); beyond eight digits
\* every float is an infinity or a zero, as it is at 10^8
Exponent(s, x) ==
    LET ds == NoLeadingZeros(SubSeq(s, x, DigitEnd(s, x) - 1))
        n == IF Len(ds) > 8 THEN 100000000 ELSE TextToNat(ds)
    IN IF x = 0 THEN 0 ELSE IF At(s, x - 1) = "-" THEN 0 - n ELSE n

\* the number NUMBER_RE matched and what became of its value: its integer part is
\* s[b..ie-1], its fraction ends before fe, its exponent digits start at x
NumberValue(s, neg, b, ie, fe, x) ==
    [matched |-> TRUE,
     r |-> IF fe = ie /\ x = 0 THEN IntValue(neg, SubSeq(s, b, ie - 1), ie)
           ELSE Ok(ToFloat(IF neg THEN -1 ELSE 1,
                           SubSeq(s, b, ie - 1) \o SubSeq(s, ie + 1, fe - 1),
                           Exponent(s, x) - (IF fe > ie THEN fe - ie - 1 ELSE 0)),
                   IF x = 0 THEN fe ELSE DigitEnd(s, x))]

\* ([eE][-+]?\d+)? at fe
MatchExp(s, neg, b, ie, fe) ==
    NumberValue(s, neg, b, ie, fe,
                IF At(s, fe) \in {"e", "E"} /\ At(s, fe + 1) \in {"+", "-"}
                                            /\ IsDigit(At(s, fe + 2)) THEN fe + 2
                ELSE IF At(s, fe) \in {"e", "E"} /\ IsDigit(At(s, fe + 1)) THEN fe + 1
                ELSE 0)

\* (\.\d+)? at ie
MatchFrac(s, neg, b, ie) ==
    MatchExp(s, neg, b, ie,
             IF At(s, ie) = "." /\ IsDigit(At(s, ie + 1)) THEN DigitEnd(s, ie + 1) ELSE ie)

\* (0|[1-9]\d*) at b, without which NUMBER_RE does not match
MatchInt(s, neg, b) ==
    IF ~IsDigit(At(s, b)) THEN [matched |-> FALSE, r |-> Fail]
    ELSE MatchFrac(s, neg, b, IF s[b] = "0" THEN b + 1 ELSE DigitEnd(s, b))

\* json.scanner.NUMBER_RE at i: an integer, or with a fraction or an exponent a float
match_number(s, i) == MatchInt(s, At(s, i) = "-", IF At(s, i) = "-" THEN i + 1 ELSE i)

Literal(s, i, word, val) ==
    IF i + Len(word) - 1 <= Len(s) /\ SubSeq(s, i, i + Len(word) - 1) = word
    THEN Ok(val, i + Len(word))
    ELSE Fail

\* a number where NUMBER_RE matched (m), else NaN, Infinity or -Infinity
NumberOrConstant(s, i, m) ==
    IF m.matched THEN m.r
    ELSE IF At(s, i) = "N" THEN Literal(s, i, <<"N", "a", "N">>, JNaN)
    ELSE IF At(s, i) = "I" THEN
        Literal(s, i, <<"I", "n", "f", "i", "n", "i", "t", "y">>, JInfinity)
    ELSE IF At(s, i) = "-" THEN
        Literal(s, i, <<"-", "I", "n", "f", "i", "n", "i", "t", "y">>, JNegInfinity)
    ELSE Fail

\* the value at i
RECURSIVE scan_once(_, _), JSONObject(_, _, _), JSONArray(_, _, _)
scan_once(s, i) ==
    LET c == At(s, i) IN
    IF c = "\"" THEN
        LET r == scanstring(s, i + 1, <<>>) IN
        IF r.ok THEN Ok(JStr(r.v), r.i) ELSE Fail
    ELSE IF c = "{" THEN
        LET e == SkipWs(s, i + 1) IN
        IF At(s, e) = "}" THEN Ok(JObj(<<>>), e + 1)
        ELSE IF At(s, e) = "\"" THEN JSONObject(s, e + 1, <<>>)
        ELSE Fail
    ELSE IF c = "[" THEN
        LET e == SkipWs(s, i + 1) IN
        IF At(s, e) = "]" THEN Ok(JArr(<<>>), e + 1)
        ELSE JSONArray(s, e, <<>>)
    ELSE IF c = "n" THEN Literal(s, i, <<"n", "u", "l", "l">>, JNull)
    ELSE IF c = "t" THEN Literal(s, i, <<"t", "r", "u", "e">>, JTrue)
    ELSE IF c = "f" THEN Literal(s, i, <<"f", "a", "l", "s", "e">>, JFalse)
    ELSE NumberOrConstant(s, i, match_number(s, i))

\* the members of an object from the key whose opening quote is before i
JSONObject(s, i, pairs) ==
    LET k == scanstring(s, i, <<>>) IN
    IF ~k.ok THEN Fail ELSE
    LET c == SkipWs(s, k.i) IN
    IF At(s, c) /= ":" THEN Fail ELSE
    LET val == scan_once(s, SkipWs(s, c + 1)) IN
    IF ~val.ok THEN Fail ELSE
    LET e == SkipWs(s, val.i)
        np == DictSet(pairs, k.v, val.v)
    IN
    IF At(s, e) = "}" THEN Ok(JObj(np), e + 1)
    ELSE IF At(s, e) /= "," THEN Fail
    ELSE LET q == SkipWs(s, e + 1) IN
         IF At(s, q) = "\"" THEN JSONObject(s, q + 1, np) ELSE Fail

\* the items of an array from the item at i
JSONArray(s, i, items) ==
    LET val == scan_once(s, i) IN
    IF ~val.ok THEN Fail ELSE
    LET e == SkipWs(s, val.i)
        ni == Append(items, val.v)
    IN
    IF At(s, e) = "]" THEN Ok(JArr(ni), e + 1)
    ELSE IF At(s, e) /= "," THEN Fail
    ELSE JSONArray(s, SkipWs(s, e + 1), ni)

\* What the characters lo..hi do to the scanner from each place it can be in
\* (1 outside a string, 2 inside one, 3 inside one after a backslash): where it
\* ends (exit), the change in the number of open containers (net) and the most
\* nested calls it is in (peak).  The scanner makes one nested call for each
\* container it opens and one, to the parse_constant callback, for NaN, Infinity
\* and -Infinity, the only places a text that decodes has "N" or "I" outside a
\* string.
RECURSIVE Nesting(_, _, _)
Nesting(s, lo, hi) ==
    IF lo > hi THEN << [exit |-> 1, net |-> 0, peak |-> 0], [exit |-> 2, net |-> 0, peak |-> 0],
                       [exit |-> 3, net |-> 0, peak |-> 0] >>
    ELSE IF lo = hi THEN
        << IF s[lo] \in {"{", "["} THEN [exit |-> 1, net |-> 1, peak |-> 1]
           ELSE IF s[lo] \in {"}", "]"} THEN [exit |-> 1, net |-> 0 - 1, peak |-> 0]
           ELSE IF s[lo] \in {"N", "I"} THEN [exit |-> 1, net |-> 0, peak |-> 1]
           ELSE [exit |-> IF s[lo] = "\"" THEN 2 ELSE 1, net |-> 0, peak |-> 0],
           [exit |-> IF s[lo] = "\"" THEN 1 ELSE IF s[lo] = "\\" THEN 3 ELSE 2,
            net |-> 0, peak |-> 0],
           [exit |-> 2, net |-> 0, peak |-> 0] >>
    ELSE LET a == Nesting(s, lo, (lo + hi) \div 2)
             b == Nesting(s, (lo + hi) \div 2 + 1, hi)
             Then(x, y) == [exit |-> y.exit, net |-> x.net + y.net,
                            peak |-> IF x.peak >= x.net + y.peak THEN x.peak
                                     ELSE x.net + y.peak]
         IN << Then(a[1], b[a[1].exit]), Then(a[2], b[a[2].exit]), Then(a[3], b[a[3].exit]) >>

\* json.loads(s) called with d levels left below the recursion limit: one value,
\* whitespace around it, nothing else.  A text that needs more nested calls than d
\* raises RecursionError, unless it is malformed before that point and raises
\* JSONDecodeError: it fails either way, so the test is made ahead of the scan.
json_loads(s, d) ==
    LET r == scan_once(s, SkipWs(s, 1)) IN
    IF Nesting(s, 1, Len(s))[1].peak > d THEN Fail
    ELSE IF r.ok /\ SkipWs(s, r.i) = Len(s) + 1 THEN r ELSE Fail

(***************************************************************************)
(* json.dumps(value) with the default separators                           *)
(***************************************************************************)
\* str(n) of a small int
RECURSIVE IntToText(_)
IntToText(n) ==
    IF n < 0 THEN <<"-">> \o IntToText(0 - n)
    ELSE IF n < 10 THEN <<Digits[n + 1]>>
    ELSE IntToText(n \div 10) \o <<Digits[(n % 10) + 1]>>

\* an int value from a small number
JNum(n) == JInt(IntToText(n))

\* float.__repr__ of sign * ds * 10^e, ds the digits of the shortest decimal
FloatToText(sign, ds, e) ==
    LET n == Len(ds)
        decpt == n + e
        x == decpt - 1
        body ==
            IF ds = <<"0">> THEN <<"0", ".", "0">>
            ELSE IF decpt > 16 \/ decpt <= -4 THEN
                <<ds[1]>> \o (IF n > 1 THEN <<".">> \o SubSeq(ds, 2, n) ELSE <<>>)
                \o <<"e", IF x < 0 THEN "-" ELSE "+">>
                \o (IF x > -10 /\ x < 10 THEN <<"0">> ELSE <<>>)
                \o IntToText(IF x < 0 THEN 0 - x ELSE x)
            ELSE IF decpt <= 0 THEN <<"0", ".">> \o Zeros(0 - decpt) \o ds
            ELSE IF decpt >= n THEN ds \o Zeros(decpt - n) \o <<".", "0">>
            ELSE SubSeq(ds, 1, decpt) \o <<".">> \o SubSeq(ds, decpt + 1, n)
    IN (IF sign = 1 THEN <<>> ELSE <<"-">>) \o body

\* json.encoder.ESCAPE_ASCII: everything outside space..~ is escaped
EscapeChar(c) ==
    CASE c = "\"" -> <<"\\", "\"">>
      [] c = "\\" -> <<"\\", "\\">>
      [] c = "\n" -> <<"\\", "n">>
      [] c = "\t" -> <<"\\", "t">>
      [] c = "\r" -> <<"\\", "r">>
      [] c = "\f" -> <<"\\", "f">>
      [] c = CharOf(8) -> <<"\\", "b">>
      [] c = CharOf(96) -> <<c>>
      [] Len(c) = 6 /\ c /= CharOf(8) /\ c /= CharOf(96) ->
            <<"\\", "u", SubSeq(c, 3, 3), SubSeq(c, 4, 4), SubSeq(c, 5, 5), SubSeq(c, 6, 6)>>
      [] OTHER -> <<c>>

\* the escapes of the characters of s, one after the other
RECURSIVE EscapeText(_)
EscapeText(s) ==
    IF s = <<>> THEN <<>>
    ELSE IF Len(s) = 1 THEN EscapeChar(s[1])
    ELSE EscapeText(SubSeq(s, 1, Len(s) \div 2))
         \o EscapeText(SubSeq(s, (Len(s) \div 2) + 1, Len(s)))

Quoted(s) == <<"\"">> \o EscapeText(s) \o <<"\"">>

RECURSIVE json_dumps(_), DumpPairs(_), DumpItems(_)
json_dumps(val) ==
    CASE val.t = "str" -> Quoted(val.v)
      [] val.t = "num" -> val.v
      [] val.t = "float" -> FloatToText(val.v[1], val.v[2], val.v[3])
      [] val.t = "const" ->
            (CASE val.v = "NaN" -> <<"N", "a", "N">>
               [] val.v = "Infinity" -> <<"I", "n", "f", "i", "n", "i", "t", "y">>
               [] OTHER -> <<"-", "I", "n", "f", "i", "n", "i", "t", "y">>)
      [] val.t = "lit" ->
            (CASE val.v = "true" -> <<"t", "r", "u", "e">>
               [] val.v = "false" -> <<"f", "a", "l", "s", "e">>
               [] OTHER -> <<"n", "u", "l", "l">>)
      [] val.t = "obj" -> <<"{">> \o DumpPairs(val.v) \o <<"}">>
      [] val.t = "arr" -> <<"[">> \o DumpItems(val.v) \o <<"]">>

DumpPairs(pairs) ==
    IF pairs = <<>> THEN <<>>
    ELSE Quoted(pairs[1][1]) \o <<":", " ">> \o json_dumps(pairs[1][2])
         \o (IF Len(pairs) = 1 THEN <<>> ELSE <<",", " ">> \o DumpPairs(Tail(pairs)))

DumpItems(items) ==
    IF items = <<>> THEN <<>>
    ELSE json_dumps(items[1])
         \o (IF Len(items) = 1 THEN <<>> ELSE <<",", " ">> \o DumpItems(Tail(items)))

(***************************************************************************)
(* llm.py: safe_json_from_response                                         *)
(***************************************************************************)
\* str.index / str.rindex, 1-based; 0 stands for ValueError
Index(s, c) ==
    IF \E i \in 1..Len(s) : s[i] = c
    THEN CHOOSE i \in 1..Len(s) : s[i] = c /\ \A j \in 1..(i - 1) : s[j] /= c
    ELSE 0

\* a variant that stops at the first occurrence, as str.index does
RIndexAsIndex(s, c) == Index(s, c)

RIndex(s, c) ==
    IF \E i \in 1..Len(s) : s[i] = c
    THEN CHOOSE i \in 1..Len(s) : s[i] = c /\ \A j \in (i + 1)..Len(s) : s[j] /= c
    ELSE 0

ErrorKey == <<"e", "r", "r", "o", "r">>
RawKey == <<"r", "a", "w">>
ErrorMsg ==
    <<"I", "n", "v", "a", "l", "i", "d", " ", "J", "S", "O", "N", " ",
      "r", "e", "t", "u", "r", "n", "e", "d", " ", "b", "y", " ", "L", "L", "M">>

\* the value of the except branch; raw is the argument as it was passed
Sentinel(raw) == JObj(<< <<ErrorKey, JStr(ErrorMsg)>>, <<RawKey, raw>> >>)

\* a variant whose sentinel keeps the slice instead of the whole text
safe_json_raw_is_slice(txt, d) ==
    IF txt.t /= "str" THEN Sentinel(txt)
    ELSE LET start == Index(txt.v, "{")
             end == RIndex(txt.v, "}")
         IN
         IF start = 0 \/ end = 0 THEN Sentinel(txt)
         ELSE LET r == json_loads(SubSeq(txt.v, start, end), d) IN
              IF r.ok THEN r.v ELSE Sentinel(JStr(SubSeq(txt.v, start, end)))

\* txt is the message content: a str, or None, on which text.index raises; d is
\* the room the call stack leaves json.loads for nested containers.  The bare
\* except answers every exception of the try block with the sentinel
safe_json_from_response(txt, d) ==
    IF txt.t /= "str" THEN Sentinel(txt)
    ELSE LET start == Index(txt.v, "{")
             end == RIndex(txt.v, "}")
         IN
         IF start = 0 \/ end = 0 THEN Sentinel(txt)
         ELSE LET r == json_loads(SubSeq(txt.v, start, end), d) IN
              IF r.ok THEN r.v ELSE Sentinel(txt)

\* the generators, once the provider has handed over its reply, return the
\* extraction of it
generate_output_schema(reply, d) == safe_json_from_response(reply, d)

generate_input_schema(reply, d) == safe_json_from_response(reply, d)

generate_mapping(reply, d) == safe_json_from_response(reply, d)

(***************************************************************************)
(* rag.py: the vector store.  The collection is the sequence of its        *)
(* entries in insertion order; the handle is the module-level collection   *)
(* object, live while the collection it was opened on exists and stale     *)
(* once clear_all has deleted it.                                          *)
(***************************************************************************)
Min(a, b) == IF a < b THEN a ELSE b

Count(s, c) == Cardinality({i \in 1..Len(s) : s[i] = c})

\* the embedding provider: a fixed vector per text
embed_text(txt) == <<Len(txt), Count(txt, "s")>>

\* the collection's distance (squared L2)
Distance(a, b) ==
    (a[1] - b[1]) * (a[1] - b[1]) + (a[2] - b[2]) * (a[2] - b[2])

IdSuffix(type) ==
    CASE type = "description" -> <<"_", "d", "e", "s", "c">>
      [] type = "input_schema" -> <<"_", "i", "n", "p", "u", "t">>
      [] type = "output_schema" -> <<"_", "o", "u", "t", "p", "u", "t">>

Types == {"description", "input_schema", "output_schema"}

\* a variant that stores a second entry under an id the collection already holds
CollectionAddAgain(coll, id, doc, meta) ==
    Append(coll, [id |-> id, embedding |-> embed_text(doc),
                  document |-> doc, metadata |-> meta])

\* collection.add of one entry: an id the collection already holds is left as it is
CollectionAdd(coll, id, doc, meta) ==
    IF \E i \in 1..Len(coll) : coll[i].id = id THEN coll
    ELSE Append(coll, [id |-> id, embedding |-> embed_text(doc),
                       document |-> doc, metadata |-> meta])

\* the n-th collection.add of ingest_api_spec: the description, the input schema,
\* the output schema
ingest_add(coll, n, api_name, description, input_schema, output_schema) ==
    CASE n = 1 -> CollectionAdd(coll, api_name \o IdSuffix("description"), description,
                                [api_name |-> api_name, type |-> "description"])
      [] n = 2 -> CollectionAdd(coll, api_name \o IdSuffix("input_schema"),
                                json_dumps(input_schema),
                                [api_name |-> api_name, type |-> "input_schema"])
      [] n = 3 -> CollectionAdd(coll, api_name \o IdSuffix("output_schema"),
                                json_dumps(output_schema),
                                [api_name |-> api_name, type |-> "output_schema"])

\* failAt = n > 0: the n-th embed_text call raises, and the call ends there; on a
\* handle whose collection was deleted the first collection.add raises
ingest_api_spec(coll, h, api_name, description, input_schema, output_schema, failAt) ==
    LET c1 == ingest_add(coll, 1, api_name, description, input_schema, output_schema)
        c2 == ingest_add(c1, 2, api_name, description, input_schema, output_schema)
        c3 == ingest_add(c2, 3, api_name, description, input_schema, output_schema)
    IN CASE h = "stale" \/ failAt = 1 -> coll
         [] failAt = 2 -> c1
         [] failAt = 3 -> c2
         [] OTHER -> c3

\* chroma_client.delete_collection: the stored entries are gone, and the
\* module's collection handle no longer names a collection
clear_all(coll) == [store |-> <<>>, handle |-> "stale"]

\* the module-level handle of a starting process, on the persisted entries
get_or_create_collection(coll) == [store |-> coll, handle |-> "live"]

\* collection.get() raises on a stale handle, and the except branch answers []
list_ingested_apis(coll, h) ==
    IF h = "stale" THEN <<>> ELSE [i \in 1..Len(coll) |-> coll[i].id]

\* the entries the query's where-clause keeps
Candidates(coll) == {i \in 1..Len(coll) : coll[i].metadata.type = "output_schema"}

\* collection.query: the n_results nearest candidates, nearest first; entries at the
\* same distance come in either order
Query(coll, q, n_results) ==
    LET cand == Candidates(coll)
        n == Min(n_results, Cardinality(cand))
        d(i) == Distance(coll[i].embedding, q)
    IN {r \in [1..n -> cand] :
            /\ \A i, j \in 1..n : i < j => r[i] /= r[j] /\ d(r[i]) <= d(r[j])
            /\ \A c \in cand : (\A i \in 1..n : r[i] /= c) =>
                                  \A i \in 1..n : d(r[i]) <= d(c)}

NameKey == <<"n", "a", "m", "e">>
DescriptionKey == <<"d", "e", "s", "c", "r", "i", "p", "t", "i", "o", "n">>
InputSchemaKey == <<"i", "n", "p", "u", "t", "_", "s", "c", "h", "e", "m", "a">>
OutputSchemaKey == <<"o", "u", "t", "p", "u", "t", "_", "s", "c", "h", "e", "m", "a">>
DistanceKey == <<"d", "i", "s", "t", "a", "n", "c", "e">>

\* a variant of retrieve_similar_api that returns a list with one Match Result for
\* each hit
retrieve_each_hit(coll, output_schema, r) ==
    IF Len(r) = 0 THEN JNull
    ELSE JArr([i \in 1..Len(r) |->
            JObj(<< <<NameKey, JStr(coll[r[i]].metadata.api_name)>>,
                    <<DescriptionKey, JNull>>,
                    <<InputSchemaKey, JNull>>,
                    <<OutputSchemaKey, JStr(coll[r[i]].document)>>,
                    <<DistanceKey,
                      JNum(Distance(coll[r[i]].embedding,
                                    embed_text(json_dumps(output_schema))))>> >>)])

\* retrieve_similar_api once the query has answered with the hits r
retrieve_similar_api(coll, output_schema, r) ==
    IF Len(r) = 0 THEN JNull
    ELSE LET top_metadata == coll[r[1]].metadata
             documents == JArr([i \in 1..Len(r) |-> JStr(coll[r[i]].document)])
             distance == Distance(coll[r[1]].embedding, embed_text(json_dumps(output_schema)))
         IN JObj(<< <<NameKey, JStr(top_metadata.api_name)>>,
                    <<DescriptionKey,
                      IF top_metadata.type = "description" THEN documents ELSE JNull>>,
                    <<InputSchemaKey,
                      IF top_metadata.type = "input_schema" THEN documents ELSE JNull>>,
                    <<OutputSchemaKey,
                      IF top_metadata.type = "output_schema" THEN documents ELSE JNull>>,
                    <<DistanceKey, JNum(distance)>> >>)

\* every value retrieve_similar_api(output_schema, k) can return on the collection
Retrievals(coll, output_schema, k) ==
    {retrieve_similar_api(coll, output_schema, r) :
        r \in Query(coll, embed_text(json_dumps(output_schema)), k)}

(***************************************************************************)
(* app.py: the wizard.  The session maps the keys written so far to their  *)
(* values; fault is how the last button press ended.                       *)
(***************************************************************************)
EmptySession == [key \in {} |-> JNull]

SessionSet(s, key, val) ==
    [x \in (DOMAIN s) \cup {key} |-> IF x = key THEN val ELSE s[x]]

After(s, f, c) == [session |-> s, fault |-> f, call |-> c]

NoCall == [op |-> "none"]

\* the buttons a page run renders
ShowsSearchMatchingAPI(s) == "output_schema" \in DOMAIN s

\* a variant of step 3 that renders its button on every page run
ShowsGenerateInputSchemaAlways(s) == TRUE

ShowsGenerateInputSchema(s) == "api_match" \in DOMAIN s

ShowsGenerateMapping(s) == "output_schema" \in DOMAIN s /\ "api_match" \in DOMAIN s

\* a variant of step 1 that starts the session over when a new schema arrives
press_generate_output_schema_reset(s, o, d) ==
    IF o.raised THEN After(s, "provider", [op |-> "generate_output_schema"])
    ELSE After(SessionSet(EmptySession, "output_schema", generate_output_schema(o.reply, d)),
               "none", [op |-> "generate_output_schema"])

\* o is what the provider does with the request: it raises, or it replies; d is
\* the room the page run leaves json.loads
press_generate_output_schema(s, o, d) ==
    IF o.raised THEN After(s, "provider", [op |-> "generate_output_schema"])
    ELSE After(SessionSet(s, "output_schema", generate_output_schema(o.reply, d)),
               "none", [op |-> "generate_output_schema"])

\* ret is what retrieve_similar_api returned
press_search_matching_api(s, raised, ret) ==
    IF raised THEN After(s, "provider", [op |-> "retrieve_similar_api"])
    ELSE After(SessionSet(s, "api_match", ret), "none", [op |-> "retrieve_similar_api"])

press_generate_input_schema(s, o, d) ==
    IF "api_match" \notin DOMAIN s THEN After(s, "KeyError", NoCall)
    ELSE LET c == [op |-> "generate_input_schema", api_details |-> s["api_match"]] IN
         IF o.raised THEN After(s, "provider", c)
         ELSE After(SessionSet(s, "input_schema", generate_input_schema(o.reply, d)),
                    "none", c)

press_generate_mapping(s, o, d) ==
    IF "output_schema" \notin DOMAIN s \/ "api_match" \notin DOMAIN s
    THEN After(s, "KeyError", NoCall)
    ELSE IF s["api_match"].t /= "obj" THEN After(s, "TypeError", NoCall)
    ELSE IF ~HasKey(s["api_match"], OutputSchemaKey) THEN After(s, "KeyError", NoCall)
    ELSE LET c == [op |-> "generate_mapping",
                   custom_output_schema |-> s["output_schema"],
                   existing_output_schema |-> Get(s["api_match"], OutputSchemaKey)]
         IN IF o.raised THEN After(s, "provider", c)
            ELSE After(SessionSet(s, "mapping", generate_mapping(o.reply, d)), "none", c)

(***************************************************************************)
(* Inputs                                                                  *)
(***************************************************************************)
MaxTextLen == 4
MaxK == 2
MaxDepth == 3

Alphabet == {"{", "}", "\"", "a", ":", "1"}

RECURSIVE TextsUpTo(_)
TextsUpTo(n) ==
    IF n = 0 THEN {<<>>}
    ELSE LET shorter == TextsUpTo(n - 1) IN
         shorter \cup {Append(t, c) : t \in {x \in shorter : Len(x) = n - 1}, c \in Alphabet}

\* dicts that json.dumps and json.loads carry through
Docs ==
    { JObj(<<>>),
      JObj(<< <<<<"a">>, JNum(1)>> >>),
      JObj(<< <<<<"a">>, JStr(<<"}", "{">>)>>, <<<<"b">>, JNum(-20)>> >>),
      JObj(<< <<<<"a", "\"">>, JObj(<< <<<<"b">>, JArr(<<JTrue, JNull, JObj(<<>>)>>)>> >>)>>,
              <<<<>>, JStr(<<"\\", "\n">>)>> >>),
      JObj(<< <<ErrorKey, JStr(<<"x">>)>>, <<RawKey, JFalse>> >>),
      JObj(<< <<<<"m">>, JFloat(1, <<"5">>, -1)>>,
              <<<<"n">>, JArr(<<JFloat(-1, <<"0">>, 0), JFloat(1, <<"1">>, 22), JNaN, JNegInfinity>>)>> >>),
      JObj(<< <<<<CharOf(233)>>, JStr(<<CharOf(8), CharOf(96), "A">>)>> >>) }

\* the levels of the recursion limit json.loads takes to decode a value as
\* json.dumps writes it: one for every container around its innermost value, and
\* one for a NaN or an infinity
RECURSIVE LevelsNeeded(_)
LevelsNeeded(val) ==
    CASE val.t = "obj" ->
            1 + (IF val.v = <<>> THEN 0
                 ELSE CHOOSE n \in {LevelsNeeded(val.v[i][2]) : i \in 1..Len(val.v)} :
                        \A i \in 1..Len(val.v) : LevelsNeeded(val.v[i][2]) <= n)
      [] val.t = "arr" ->
            1 + (IF val.v = <<>> THEN 0
                 ELSE CHOOSE n \in {LevelsNeeded(val.v[i]) : i \in 1..Len(val.v)} :
                        \A i \in 1..Len(val.v) : LevelsNeeded(val.v[i]) <= n)
      [] val.t = "const" -> 1
      [] OTHER -> 0

\* text around a document: no "{" before it, no "}" after it
Fence == <<CharOf(96), CharOf(96), CharOf(96)>>
Prefixes ==
    {<<>>, <<"S", "u", "r", "e", "!", " ">>, <<"}", "\"", "\n">>,
     Fence \o <<"j", "s", "o", "n", "\n">>}
Suffixes == {<<>>, <<" ", "t", "h", "a", "n", "k", "s">>, <<"\"", "{", " ">>, <<"\n">> \o Fence}

\* a document as a model may write it: json.dumps's form, or the compact form
Compact(src) == SelectSeq(src, LAMBDA c : c /= " ")
\* documents written with escapes and number forms that json.dumps does not use
WrittenForms ==
    { [src |-> <<"{", "\"", "a", "\"", ":", "1", ".", "5", "0", "e", "1", ",",
                 "\"", "b", "\"", ":", "\"", "\\", "u", "0", "0", "4", "1", "\\", "b", "\"", "}">>,
       need |-> 1,
       val |-> JObj(<< <<<<"a">>, JFloat(1, <<"1", "5">>, 0)>>, <<<<"b">>, JStr(<<"A", CharOf(8)>>)>> >>)],
      [src |-> <<"{", "\"", "a", "\"", ":", "[", "-", "1", "E", "4", "0", "0", ",",
                 "1", "0", "0", "e", "-", "2", ",", "2", "]", "}">>,
       need |-> 2,
       val |-> JObj(<< <<<<"a">>, JArr(<<JNegInfinity, JFloat(1, <<"1">>, 0), JNum(2)>>)>> >>)],
      [src |-> <<"{", "\"", "a", "\"", ":", "9", "0", "0", "7", "1", "9", "9", "2", "5", "4",
                 "7", "4", "0", "9", "9", "3", ".", "0", "}">>,
       need |-> 1,
       val |-> JObj(<< <<<<"a">>, JFloat(1, Two53, 0)>> >>)] }

\* a written document, the dict it denotes, and the levels its decoding takes
DocForms ==
    {[src |-> json_dumps(d), need |-> LevelsNeeded(d), val |-> d] : d \in Docs}
    \cup {[src |-> Compact(json_dumps(d)), need |-> LevelsNeeded(d), val |-> d] : d \in Docs}
    \cup WrittenForms

\* a reply whose one member is an integer of n digits
IntegerReply(n) ==
    <<"S", "u", "r", "e", "!", " ", "{", "\"", "n", "\"", ":">> \o [i \in 1..n |-> "7"]
    \o <<"}", "\n">>

\* a reply whose one member is a decimal below the least float
SubnormalReply ==
    <<"S", "u", "r", "e", "!", " ", "{", "\"", "x", "\"", ":", "3", "e", "-", "3", "2", "4", "}">>


ComposedTexts == {p \o f.src \o q : p \in Prefixes, f \in DocForms, q \in Suffixes}

Scenario ==
    <<"S", "u", "r", "e", "!", " ", "{", "\"", "a", "\"", ":", "1", "}",
      " ", "t", "h", "a", "n", "k", "s">>

\* the message content handed to the extractor: a str, or None
Texts ==
    {JStr(t) : t \in TextsUpTo(MaxTextLen) \cup ComposedTexts
                    \cup {Scenario, SubnormalReply,
                          IntegerReply(MaxStrDigits), IntegerReply(MaxStrDigits + 1)}}
    \cup {JNull}

NameA == <<"a">>
NameB == <<"a", "_", "d", "e", "s", "c">>
InP == JObj(<< <<<<"p">>, JStr(<<"s">>)>> >>)
InQ == JObj(<< <<<<"q">>, JArr(<<>>)>> >>)
OutA == JObj(<< <<<<"s">>, JStr(<<"s", "t", "r">>)>> >>)
OutB == JObj(<< <<<<"g">>, JNum(1)>>, <<<<"s">>, JStr(<<"s">>)>> >>)

ApiRecord(n, d, i, o) ==
    [name |-> n, description |-> d, input_schema |-> i, output_schema |-> o]

\* the API files on hand: two names, each in two versions that differ in every field
ApiRecords ==
    { ApiRecord(NameA, <<"x">>, InP, OutA),
      ApiRecord(NameA, <<"y", "s">>, InQ, OutB),
      ApiRecord(NameB, <<"y", "s">>, InQ, OutB),
      ApiRecord(NameB, <<"x">>, InP, OutA) }

\* what the model provider may reply
Replies ==
    { JStr(<<"o", "k", " ">> \o json_dumps(OutA) \o <<".">>),
      JStr(json_dumps(OutB)),
      JStr(<<"n", "o">>),
      JNull }

Outcomes ==
    {[raised |-> TRUE, reply |-> JNull]} \cup {[raised |-> FALSE, reply |-> t] : t \in Replies}

\* the schemas searched for: what step 1 makes of a reply that has text
QuerySchemas == {generate_output_schema(t, RecursionLimit - ScriptFrames) : t \in Replies \ {JNull}}

\* the room for nested containers where json.loads scans: what the interpreter's
\* recursion limit leaves beyond the frames of the calling stack, from none to all
\* that a script run directly has
Levels == (0..MaxDepth) \cup {RecursionLimit - ScriptFrames}

\* the room where the page run of app.py has json.loads scan: the script run
\* directly, or under a launcher
AppLevels == {RecursionLimit - ScriptFrames - LauncherFrames, RecursionLimit - ScriptFrames}

Pending == [t |-> "pending", v |-> <<>>]

(***************************************************************************)
(* The extractor and the generators on one reply text                      *)
(***************************************************************************)
InitExtract ==
    /\ text \in Texts
    /\ levels \in Levels
    /\ result = Pending
    /\ store = <<>>
    /\ session = EmptySession
    /\ fault = "none"
    /\ call = NoCall
    /\ handle = "live"

\* A call of op ends.  The calls op makes before the extraction need p levels of
\* the room: with fewer left they raise RecursionError, which nothing in op
\* catches; otherwise op returns val.
Ended(op, p, val) ==
    /\ call = NoCall
    /\ IF levels < p
       THEN /\ call' = [op |-> op, raised |-> "RecursionError"]
            /\ UNCHANGED result
       ELSE /\ call' = [op |-> op, raised |-> "none"]
            /\ result' = val
    /\ UNCHANGED <<text, levels, store, handle, session, fault>>

\* the extractor makes no call before its try block
CallSafeJson == Ended("safe_json_from_response", 0, safe_json_from_response(text, levels))

\* A generator builds its prompt and calls client.chat.completions.create two
\* frames above json.loads.  How deep that call goes depends on the client
\* library and on the prompt's arguments; it takes more than the frames between
\* the generator and the scanner and one level, and the real client many more.
CallGenerateOutputSchema ==
    \E p \in 2..(MaxDepth + 1) :
        Ended("generate_output_schema", p, generate_output_schema(text, levels))

CallGenerateInputSchema ==
    \E p \in 2..(MaxDepth + 1) :
        Ended("generate_input_schema", p, generate_input_schema(text, levels))

CallGenerateMapping ==
    \E p \in 2..(MaxDepth + 1) :
        Ended("generate_mapping", p, generate_mapping(text, levels))

NextExtract ==
    \/ CallSafeJson
    \/ CallGenerateOutputSchema
    \/ CallGenerateInputSchema
    \/ CallGenerateMapping

SpecExtract == InitExtract /\ [][NextExtract]_vars

(***************************************************************************)
(* The vector store under ingestion, listing and retrieval                 *)
(***************************************************************************)
InitStore ==
    /\ text = JStr(<<>>)
    /\ levels = RecursionLimit - ScriptFrames
    /\ result = Pending
    /\ store = <<>>
    /\ session = EmptySession
    /\ fault = "none"
    /\ call = NoCall
    /\ handle = "live"

\* an ingest_api_spec call is between two of its collection.add calls
Running == call.op = "ingest_api_spec" /\ call.raised = "none" /\ call.step < 3

\* where an ingest_api_spec call stands after its n-th embed_text and collection.add
IngestStep(c, n, fail) ==
    IF fail THEN
        /\ call' = [c EXCEPT !.raised = "provider"]
        /\ UNCHANGED store
    ELSE IF handle = "stale" THEN
        /\ call' = [c EXCEPT !.raised = "store"]
        /\ UNCHANGED store
    ELSE
        /\ store' = ingest_add(store, n, c.api.name, c.api.description,
                               c.api.input_schema, c.api.output_schema)
        /\ call' = [c EXCEPT !.step = n]

\* ingest_api_spec is called and embeds and adds the description
IngestDescription ==
    /\ ~Running
    /\ \E a \in ApiRecords, fail \in BOOLEAN :
          IngestStep([op |-> "ingest_api_spec", api |-> a, step |-> 0, raised |-> "none",
                      before |-> list_ingested_apis(store, handle)], 1, fail)
    /\ UNCHANGED <<text, levels, result, handle, session, fault>>

IngestInputSchema ==
    /\ Running
    /\ call.step = 1
    /\ \E fail \in BOOLEAN : IngestStep(call, 2, fail)
    /\ UNCHANGED <<text, levels, result, handle, session, fault>>

\* the last add, after which the call returns
IngestOutputSchema ==
    /\ Running
    /\ call.step = 2
    /\ \E fail \in BOOLEAN : IngestStep(call, 3, fail)
    /\ UNCHANGED <<text, levels, result, handle, session, fault>>

\* embed_text raises, or collection.query raises on a stale handle, or the query
\* answers and the call returns
Retrieve ==
    /\ ~Running
    /\ \E q \in QuerySchemas, k \in 1..MaxK :
        /\ \/ call' = [op |-> "retrieve_similar_api", output_schema |-> q, k |-> k,
                       raised |-> "provider", ret |-> JNull]
           \/ /\ handle = "stale"
              /\ call' = [op |-> "retrieve_similar_api", output_schema |-> q, k |-> k,
                          raised |-> "store", ret |-> JNull]
           \/ /\ handle = "live"
              /\ \E r \in Query(store, embed_text(json_dumps(q)), k) :
                    call' = [op |-> "retrieve_similar_api", output_schema |-> q, k |-> k,
                             raised |-> "none",
                             ret |-> retrieve_similar_api(store, q, r)]
        /\ UNCHANGED <<text, levels, result, store, handle, session, fault>>

ListIngested ==
    /\ ~Running
    /\ call' = [op |-> "list_ingested_apis", ret |-> list_ingested_apis(store, handle)]
    /\ UNCHANGED <<text, levels, result, store, handle, session, fault>>

\* delete_collection raises when the collection is already gone
ClearAll ==
    /\ ~Running
    /\ IF handle = "stale"
       THEN /\ call' = [op |-> "clear_all", raised |-> "store"]
            /\ UNCHANGED <<store, handle>>
       ELSE /\ store' = clear_all(store).store
            /\ handle' = clear_all(store).handle
            /\ call' = [op |-> "clear_all", raised |-> "none"]
    /\ UNCHANGED <<text, levels, result, session, fault>>

\* a new process imports the module, whether the last one ended between calls or
\* inside one: get_or_create_collection opens the persisted collection, or creates
\* it empty when it was deleted
Startup ==
    /\ handle' = get_or_create_collection(store).handle
    /\ store' = get_or_create_collection(store).store
    /\ call' = [op |-> "startup"]
    /\ UNCHANGED <<text, levels, result, session, fault>>

NextStore ==
    \/ IngestDescription
    \/ IngestInputSchema
    \/ IngestOutputSchema
    \/ Retrieve
    \/ ListIngested
    \/ ClearAll
    \/ Startup

SpecStore == InitStore /\ [][NextStore]_vars

(***************************************************************************)
(* The wizard over a store that ingestion has filled                       *)
(***************************************************************************)
OneApi == ingest_api_spec(<<>>, "live", NameA, <<"x">>, InP, OutA, 0)

TwoApis == ingest_api_spec(OneApi, "live", NameB, <<"y", "s">>, InQ, OutB, 0)

Init ==
    /\ text = JStr(<<>>)
    /\ levels \in AppLevels
    /\ result = Pending
    /\ store \in {<<>>, OneApi, TwoApis}
    /\ session = EmptySession
    /\ fault = "none"
    /\ call = NoCall
    /\ handle = "live"

Shown(after) ==
    /\ session' = after.session
    /\ fault' = after.fault
    /\ call' = after.call
    /\ UNCHANGED <<text, levels, result, store, handle>>

GenerateOutputSchema ==
    \E o \in Outcomes : Shown(press_generate_output_schema(session, o, levels))

SearchMatchingAPI ==
    /\ ShowsSearchMatchingAPI(session)
    /\ IF "output_schema" \notin DOMAIN session
       THEN Shown(After(session, "KeyError", NoCall))
       ELSE \/ Shown(press_search_matching_api(session, TRUE, JNull))
            \/ \E ret \in Retrievals(store, session["output_schema"], 1) :
                  Shown(press_search_matching_api(session, FALSE, ret))

GenerateInputSchema ==
    /\ ShowsGenerateInputSchema(session)
    /\ \E o \in Outcomes : Shown(press_generate_input_schema(session, o, levels))

GenerateMapping ==
    /\ ShowsGenerateMapping(session)
    /\ \E o \in Outcomes : Shown(press_generate_mapping(session, o, levels))

Next ==
    \/ GenerateOutputSchema
    \/ SearchMatchingAPI
    \/ GenerateInputSchema
    \/ GenerateMapping

Spec == Init /\ [][Next]_vars

(***************************************************************************)
(* Properties of the extractor (SpecExtract)                               *)
(***************************************************************************)
IsFirst(txt, i, c) == txt[i] = c /\ \A x \in 1..(i - 1) : txt[x] /= c

IsLast(txt, j, c) == txt[j] = c /\ \A x \in (j + 1)..Len(txt) : txt[x] /= c

\* the text holds the written document f from its first "{" to its last "}"
Embeds(txt, f) ==
    \E i \in 1..Len(txt) :
        /\ i + Len(f.src) - 1 <= Len(txt)
        /\ IsFirst(txt, i, "{")
        /\ IsLast(txt, i + Len(f.src) - 1, "}")
        /\ SubSeq(txt, i, i + Len(f.src) - 1) = f.src

\* C1 as stated: when the text from the first "{" to the last "}" is one
\* well-formed JSON object, safe_json_from_response and the three generators return
\* exactly that object, whatever precedes the first "{" and follows the last "}";
\* the reply 'Sure! {"a":1} thanks' yields {"a": 1}.
C1_ExtractsEmbeddedObject ==
    (result /= Pending /\ text.t = "str") =>
        /\ \A f \in DocForms : Embeds(text.v, f) => result = f.val
        /\ text.v = Scenario => result = JObj(<< <<<<"a">>, JNum(1)>> >>)
        /\ text.v = IntegerReply(MaxStrDigits + 1) =>
              result = JObj(<< <<<<"n">>, JInt([i \in 1..(MaxStrDigits + 1) |-> "7"])>> >>)

\* the room is too small for the calls a generator makes before the extraction
LittleRoom == levels <= MaxDepth

\* C1 as amended: when the text from the first "{" to the last "}" is one
\* well-formed JSON object that json.loads can decode where it is called, that is,
\* its containers (and a NaN or an infinity in them) nest no deeper than the
\* interpreter's recursion limit leaves room for and none of its integers has more
\* than 4300 digits, safe_json_from_response returns exactly that object (a number
\* as the int or the float Python reads it as), whatever precedes the first "{"
\* and follows the last "}"; for a well-formed object beyond those limits it
\* returns the sentinel with the whole text as raw.  The reply
\* 'Sure! {"a":1} thanks' yields {"a": 1} wherever one level is left.  A generator
\* that returns, returns the same; it raises RecursionError, before it has a reply,
\* only where the room is too small for its provider call, and does so always
\* where fewer than two levels are left.  The extractor itself never raises.
C1_ExtractsDecodableObject ==
    (call /= NoCall /\ text.t = "str") =>
        \/ /\ call.raised = "RecursionError"
           /\ call.op /= "safe_json_from_response"
           /\ LittleRoom
           /\ result = Pending
        \/ /\ call.raised = "none"
           /\ call.op /= "safe_json_from_response" => levels >= 2
           /\ \A f \in DocForms : Embeds(text.v, f) =>
                 result = IF f.need <= levels THEN f.val ELSE Sentinel(text)
           /\ text.v = Scenario =>
                 result = IF levels >= 1 THEN JObj(<< <<<<"a">>, JNum(1)>> >>)
                          ELSE Sentinel(text)
           /\ text.v = IntegerReply(MaxStrDigits) =>
                 result = IF levels >= 1
                          THEN JObj(<< <<<<"n">>, JInt([i \in 1..MaxStrDigits |-> "7"])>> >>)
                          ELSE Sentinel(text)
           /\ text.v = IntegerReply(MaxStrDigits + 1) => result = Sentinel(text)
           /\ text.v = SubnormalReply =>
                 result = IF levels >= 1
                          THEN JObj(<< <<<<"x">>, JFloat(1, <<"5">>, -324)>> >>)
                          ELSE Sentinel(text)

\* a generator has returned a document that stood between prose on both sides and
\* took every level that was left
C1_Witness ==
    /\ call.op = "generate_mapping"
    /\ call.raised = "none"
    /\ LittleRoom
    /\ \E f \in DocForms :
          /\ Len(f.val.v) = 2
          /\ f.need = levels
          /\ text = JStr(<<"S", "u", "r", "e", "!", " ">> \o f.src \o <<"\"", "{", " ">>)
          /\ result = f.val

\* the text offers no object the call can decode: it is no str, a brace is missing,
\* the last "}" is before the first "{", or json.loads raises on what lies between
\* them
NoObjectIn(content) ==
    LET txt == content.v IN
    \/ content.t /= "str"
    \/ \A i \in 1..Len(txt) : txt[i] /= "{"
    \/ \A i \in 1..Len(txt) : txt[i] /= "}"
    \/ \E i \in 1..Len(txt) :
          /\ IsFirst(txt, i, "{")
          /\ \E j \in 1..Len(txt) :
                /\ IsLast(txt, j, "}")
                /\ j < i \/ ~json_loads(SubSeq(txt, i, j), levels).ok

\* C2: whenever the text has no "{", no "}", its last "}" before its first "{", or
\* a slice on which json.loads raises, the extractor returns (never raises) the
\* sentinel {error, raw} with raw the whole input text; in no other case does it
\* return that sentinel.
C2_SentinelCarriesWholeInput ==
    call /= NoCall =>
        /\ call.op = "safe_json_from_response" => call.raised = "none"
        /\ call.raised = "none" =>
              /\ result.t = "obj"
              /\ NoObjectIn(text) <=>
                    result = JObj(<< <<ErrorKey, JStr(ErrorMsg)>>, <<RawKey, text>> >>)

\* the slice is a proper part of the text and does not parse
C2_Witness ==
    /\ call.op = "safe_json_from_response"
    /\ text.t = "str"
    /\ levels = RecursionLimit - ScriptFrames
    /\ \E i \in 2..Len(text.v) :
          /\ IsFirst(text.v, i, "{")
          /\ \E j \in (i + 1)..Len(text.v) : IsLast(text.v, j, "}")
    /\ HasKey(result, RawKey)
    /\ Get(result, RawKey) = text

(***************************************************************************)
(* Properties of the store (SpecStore)                                     *)
(***************************************************************************)
\* the last call was a retrieve_similar_api that returned
Retrieved == call.op = "retrieve_similar_api" /\ call.raised = "none"

\* the last call was an ingest_api_spec that ran to its end
Ingested == call.op = "ingest_api_spec" /\ call.raised = "none" /\ call.step = 3

OutputEntries == {i \in 1..Len(store) : store[i].metadata.type = "output_schema"}

\* the stored document of an API's entry of one type
DocumentOf(api_name, type) ==
    store[CHOOSE i \in 1..Len(store) :
            store[i].id = api_name \o IdSuffix(type)].document

\* a field of the Match Result holds the stored document, as text or parsed
HoldsDocument(val, doc) ==
    val = JStr(doc) \/ (json_loads(doc, RecursionLimit - ScriptFrames).ok
                      /\ val = json_loads(doc, RecursionLimit - ScriptFrames).v)

\* C4: a non-null result of retrieve_similar_api describes the single nearest
\* output_schema-tagged record: name and distance are that record's, and
\* description, input_schema and output_schema are the description, input schema
\* and output schema ingested under that name (output_schema one document, not a
\* list of documents).
C4_MatchDescribesNearestRecord ==
    (Retrieved /\ call.ret /= JNull) =>
        \E i \in OutputEntries :
            LET n == store[i].metadata.api_name
                d == Distance(store[i].embedding, embed_text(json_dumps(call.output_schema)))
            IN
            /\ \A j \in OutputEntries :
                  d <= Distance(store[j].embedding,
                                embed_text(json_dumps(call.output_schema)))
            /\ Get(call.ret, NameKey) = JStr(n)
            /\ Get(call.ret, DistanceKey) = JNum(d)
            /\ Get(call.ret, DescriptionKey) = JStr(DocumentOf(n, "description"))
            /\ HoldsDocument(Get(call.ret, InputSchemaKey), DocumentOf(n, "input_schema"))
            /\ HoldsDocument(Get(call.ret, OutputSchemaKey), DocumentOf(n, "output_schema"))

\* a dict with the five keys of a Match Result, naming one API at one distance
IsMatchResult(val) ==
    /\ val.t = "obj"
    /\ {val.v[i][1] : i \in 1..Len(val.v)} =
          {NameKey, DescriptionKey, InputSchemaKey, OutputSchemaKey, DistanceKey}
    /\ Len(val.v) = 5
    /\ Get(val, NameKey).t = "str"
    /\ Get(val, DistanceKey).t = "num"

\* the number of Match Results a return value holds: None holds none, a Match
\* Result is one, and a list holds as many as it has items that are Match Results
ResultCount(ret) ==
    IF ret.t = "arr" THEN Cardinality({i \in 1..Len(ret.v) : IsMatchResult(ret.v[i])})
    ELSE IF IsMatchResult(ret) THEN 1
    ELSE 0

\* C5 as stated: retrieve_similar_api(schema, k) returns min(k, number of
\* output_schema-tagged records) results.
C5_ReturnsKResults ==
    Retrieved => ResultCount(call.ret) = Min(call.k, Cardinality(OutputEntries))

\* C5 as amended: for every k >= 1 and every store content, a call of
\* retrieve_similar_api(schema, k) ends in one of three ways.  It raises when the
\* embedding provider fails; it raises when clear_all has deleted the collection
\* the process holds; otherwise it returns, and then it returns None when no
\* output_schema-tagged record exists and one Match Result, a single dict and not
\* a list, when at least one exists: never more than one, whatever k is.
C5_ReturnsOneResult ==
    call.op = "retrieve_similar_api" =>
        \/ call.raised = "provider"
        \/ call.raised = "store" /\ handle = "stale"
        \/ /\ call.raised = "none"
           /\ handle = "live"
           /\ call.ret = JNull <=> OutputEntries = {}
           /\ call.ret /= JNull => IsMatchResult(call.ret)
           /\ ResultCount(call.ret) = Min(1, Cardinality(OutputEntries))

\* two records were candidates, two were asked for, one Match Result came back
C5_Witness ==
    /\ Retrieved
    /\ call.k = 2
    /\ Cardinality(OutputEntries) = 2
    /\ IsMatchResult(call.ret)
    /\ ResultCount(call.ret) = 1

\* C6: on a store that is empty or holds no output_schema-tagged record,
\* retrieve_similar_api returns None for any schema and any k, unless the
\* embedding provider fails.
C6_NoCandidateGivesNone ==
    (call.op = "retrieve_similar_api" /\ call.raised /= "provider" /\ OutputEntries = {})
        => (call.raised = "none" /\ call.ret = JNull)

\* the part of C6 that holds: a call that reaches a collection that still exists
\* and has no output_schema-tagged record returns None
C6_LiveCollectionGivesNone ==
    (Retrieved /\ OutputEntries = {}) => call.ret = JNull

\* the three ids of an API name
IdsOf(api_name) == {api_name \o IdSuffix(type) : type \in Types}

\* the ids listed before the call held the three ids of the name it ingested
Reingested ==
    /\ Ingested
    /\ \A id \in IdsOf(call.api.name) : \E i \in 1..Len(call.before) : call.before[i] = id

\* C7: after ingest_api_spec has completed for a name whose three ids were already
\* stored, the documents and embeddings under {name}_desc, {name}_input and
\* {name}_output are those of that call, and the number of listed ids is as it was
\* before the call.
C7_ReingestOverwrites ==
    Reingested =>
        /\ \A i \in 1..Len(store) :
              LET doc == CASE store[i].id = call.api.name \o IdSuffix("description") ->
                                call.api.description
                           [] store[i].id = call.api.name \o IdSuffix("input_schema") ->
                                json_dumps(call.api.input_schema)
                           [] store[i].id = call.api.name \o IdSuffix("output_schema") ->
                                json_dumps(call.api.output_schema)
                           [] OTHER -> store[i].document
              IN store[i].document = doc /\ store[i].embedding = embed_text(doc)
        /\ Len(list_ingested_apis(store, handle)) = Len(call.before)

\* the part of C7 that holds: re-ingesting a name leaves the number of listed ids
\* as it was
C7_CountIsStable ==
    Reingested => Len(list_ingested_apis(store, handle)) = Len(call.before)

\* C8: every entry carries an api_name and a type among description, input_schema,
\* output_schema; its id is the api_name followed by the suffix of its type; no
\* two entries share an (api_name, type) pair; and a completed
\* ingest_api_spec(name, ...) leaves exactly the three entries of name.
C8_OneEntryPerNameAndType ==
    /\ \A i \in 1..Len(store) :
          /\ store[i].metadata.type \in Types
          /\ store[i].metadata.api_name \in {a.name : a \in ApiRecords}
          /\ store[i].id = store[i].metadata.api_name \o IdSuffix(store[i].metadata.type)
    /\ \A i, j \in 1..Len(store) :
          (store[i].metadata = store[j].metadata \/ store[i].id = store[j].id) => i = j
    /\ Ingested =>
          LET mine == {i \in 1..Len(store) : store[i].metadata.api_name = call.api.name} IN
          /\ Cardinality(mine) = 3
          /\ {store[i].metadata.type : i \in mine} = Types
          /\ {store[i].id : i \in mine} = IdsOf(call.api.name)

\* an ingest completed for a name that an earlier, failed ingest had left partial,
\* beside entries of the other name
C8_Witness ==
    /\ Ingested
    /\ Len(store) > Len(call.before)
    /\ \E i \in 1..Len(call.before) : call.before[i] \in IdsOf(call.api.name)
    /\ \E i \in 1..Len(call.before) : call.before[i] \notin IdsOf(call.api.name)

(***************************************************************************)
(* Properties of the wizard (Spec)                                         *)
(***************************************************************************)
Has(key) == key \in DOMAIN session

\* C3 as stated: Search Matching API can be pressed only with output_schema in the
\* session, Generate Input Schema only with api_match, Generate Mapping only with
\* input_schema, so no mapping is produced before an input schema.
C3_EachStepNeedsThePrevious ==
    /\ ENABLED SearchMatchingAPI => Has("output_schema")
    /\ ENABLED GenerateInputSchema => Has("api_match")
    /\ ENABLED GenerateMapping => Has("input_schema")
    /\ Has("mapping") => Has("input_schema")

\* C3 as amended: Search Matching API can be pressed only with output_schema in the
\* session, Generate Input Schema only with api_match, and Generate Mapping only
\* with output_schema and api_match (input_schema is not required); a mapping is
\* never produced before steps 1 and 2 have written their results.
C3_GatedOnSessionKeys ==
    /\ ENABLED SearchMatchingAPI => Has("output_schema")
    /\ ENABLED GenerateInputSchema => Has("api_match")
    /\ ENABLED GenerateMapping => Has("output_schema") /\ Has("api_match")
    /\ Has("api_match") => Has("output_schema")
    /\ Has("input_schema") => Has("api_match")
    /\ Has("mapping") => Has("output_schema") /\ Has("api_match")

\* a mapping was generated, and can be generated again, with no input schema yet
C3_Witness ==
    /\ Has("mapping")
    /\ ~Has("input_schema")
    /\ ENABLED GenerateMapping
    /\ ENABLED GenerateInputSchema

\* C9: once Search Matching API has stored a null match, no button press ends in an
\* unhandled fault of the page, and neither generate_input_schema nor
\* generate_mapping is run against the null match.
C9_NullMatchIsNothingToShow ==
    (Has("api_match") /\ session["api_match"] = JNull) =>
        /\ fault \notin {"TypeError", "KeyError"}
        /\ ~(call.op = "generate_input_schema" /\ call.api_details = JNull
                                                /\ fault = "none")
        /\ call.op /= "generate_mapping"

Keys == {"output_schema", "api_match", "input_schema", "mapping"}

Changed(key) ==
    \/ (key \in DOMAIN session') /= (key \in DOMAIN session)
    \/ key \in DOMAIN session /\ key \in DOMAIN session' /\ session'[key] /= session[key]

Writes(key) == \A other \in Keys \ {key} : ~Changed(other)

\* C10: each button writes only its own session key and leaves the others as they
\* were, also when they were computed from a value the press replaces; a press
\* whose backend call raises leaves every key unchanged.
C10_EachPressWritesItsOwnKey ==
    [][/\ GenerateOutputSchema => Writes("output_schema")
       /\ SearchMatchingAPI => Writes("api_match")
       /\ GenerateInputSchema => Writes("input_schema")
       /\ GenerateMapping => Writes("mapping")
       /\ fault' /= "none" => session' = session]_vars

\* the session shows a match, an input schema and a mapping beside an output schema
\* for which retrieval gives another match
C10_Witness ==
    /\ Has("output_schema") /\ Has("api_match") /\ Has("input_schema") /\ Has("mapping")
    /\ session["api_match"] /= JNull
    /\ session["api_match"] \notin Retrievals(store, session["output_schema"], 1)

====
